---------------------------- MODULE Spec2Model ----------------------------
(***************************************************************************)
(* A model of the Smart Help Center (src/help_center.py): the text         *)
(* chunker smart_chunk, the query expander, the confidence estimator and   *)
(* the indexing / query orchestrators of SmartHelpCenter over their three  *)
(* external collaborators (Embedder, VectorStore, Generator).              *)
(*                                                                         *)
(* Python strings are modelled as sequences of one-character strings, so   *)
(* that len, split, strip, slicing, lower and the substring test `in` are  *)
(* computed as Python computes them.                                       *)
(***************************************************************************)
EXTENDS Integers, Sequences, FiniteSets, TLC

VARIABLES
    pc,          \* position of the caller: before or after the call
    article,     \* smart_chunk: the text to chunk
    max_tokens,  \* smart_chunk: the token budget
    chunks,      \* smart_chunk: the returned list of chunks
    distances,   \* _calculate_confidence: the distances, in tenths
    confidence,  \* _calculate_confidence: the returned label
    user_query,  \* _expand_query: the query
    expanded,    \* _expand_query: the returned string
    collection,  \* SmartHelpCenter: the records of self.collection, by id
    collection_exists, \* SmartHelpCenter: self.vector_db still holds it
    request,     \* SmartHelpCenter: the method called and its arguments
    calls,       \* SmartHelpCenter: the collaborator calls the method made
    result       \* SmartHelpCenter: what the method returned, or raised

chunkVars  == <<article, max_tokens, chunks>>
confVars   == <<distances, confidence>>
expandVars == <<user_query, expanded>>
centerVars == <<collection, collection_exists, request, calls, result>>

vars == <<pc, chunkVars, confVars, expandVars, centerVars>>

---------------------------------------------------------------------------
(* Strings                                                                 *)

\* str.isspace for one character, as str.strip() without arguments uses it
Whitespace == {" ", "\n", "\t", "\r"}

RECURSIVE LStrip(_)
LStrip(s) ==
    IF s # <<>> /\ Head(s) \in Whitespace THEN LStrip(Tail(s)) ELSE s

RECURSIVE RStrip(_)
RStrip(s) ==
    IF s # <<>> /\ s[Len(s)] \in Whitespace
    THEN RStrip(SubSeq(s, 1, Len(s) - 1))
    ELSE s

\* str.strip()
Strip(s) == RStrip(LStrip(s))

\* s[p : p + len(sep)] == sep, p counted from 1
MatchesAt(s, sep, p) ==
    /\ p >= 1
    /\ p + Len(sep) - 1 <= Len(s)
    /\ \A k \in 1..Len(sep) : s[p + k - 1] = sep[k]

\* the position of the first occurrence of sep in s at or after from, 0 if none
RECURSIVE Find(_, _, _)
Find(s, sep, from) ==
    IF from + Len(sep) - 1 > Len(s) THEN 0
    ELSE IF MatchesAt(s, sep, from) THEN from
    ELSE Find(s, sep, from + 1)

\* Python's `sep in s`
Contains(s, sep) == Find(s, sep, 1) # 0

\* str.split(sep) for a non-empty separator: the pieces between the
\* non-overlapping occurrences of sep found left to right, empty pieces kept
RECURSIVE Split(_, _)
Split(s, sep) ==
    LET p == Find(s, sep, 1) IN
    IF p = 0 THEN <<s>>
    ELSE <<SubSeq(s, 1, p - 1)>> \o Split(SubSeq(s, p + Len(sep), Len(s)), sep)

---------------------------------------------------------------------------
(* smart_chunk                                                             *)

HeaderSep    == <<"\n", "#", "#", " ">>
ParagraphSep == <<"\n", "\n">>
SentenceSep  == <<".", " ">>

\* rough token estimation, 1 token = 4 characters
CharsPerToken == 4

Budget(maxTokens) == maxTokens * CharsPerToken

\* `if current_chunk: chunks.append(current_chunk.strip())`
Flush(current_chunk) ==
    IF current_chunk # <<>> THEN <<Strip(current_chunk)>> ELSE <<>>

\* Accumulate without the flush that follows the loop: the last running
\* chunk is lost
RECURSIVE AccumulateNoFinalFlush(_, _, _, _)
AccumulateNoFinalFlush(sentences, i, current_chunk, budget) ==
    IF i > Len(sentences) THEN <<>>
    ELSE IF Len(current_chunk) + Len(sentences[i]) < budget
    THEN AccumulateNoFinalFlush(sentences, i + 1,
                    current_chunk \o sentences[i] \o SentenceSep, budget)
    ELSE Flush(current_chunk)
         \o AccumulateNoFinalFlush(sentences, i + 1,
                                   sentences[i] \o SentenceSep, budget)

\* the loop over the sentences of one long paragraph, from sentence i on,
\* with the running chunk current_chunk; returns the chunks it appends
RECURSIVE Accumulate(_, _, _, _)
Accumulate(sentences, i, current_chunk, budget) ==
    IF i > Len(sentences) THEN Flush(current_chunk)
    ELSE IF Len(current_chunk) + Len(sentences[i]) < budget
    THEN Accumulate(sentences, i + 1,
                    current_chunk \o sentences[i] \o SentenceSep, budget)
    ELSE Flush(current_chunk)
         \o Accumulate(sentences, i + 1, sentences[i] \o SentenceSep, budget)

\* a paragraph of a long section
ChunkParagraph(para, budget) ==
    IF Len(para) > budget
    THEN Accumulate(Split(para, SentenceSep), 1, <<>>, budget)
    ELSE <<para>>

RECURSIVE ChunkParagraphs(_, _, _)
ChunkParagraphs(paragraphs, i, budget) ==
    IF i > Len(paragraphs) THEN <<>>
    ELSE ChunkParagraph(paragraphs[i], budget)
         \o ChunkParagraphs(paragraphs, i + 1, budget)

\* ChunkSection trimming the sections it keeps whole
ChunkSectionStripped(section, budget) ==
    IF Len(section) > budget
    THEN ChunkParagraphs(Split(section, ParagraphSep), 1, budget)
    ELSE <<Strip(section)>>

\* one section of the article
ChunkSection(section, budget) ==
    IF Len(section) > budget
    THEN ChunkParagraphs(Split(section, ParagraphSep), 1, budget)
    ELSE <<section>>

RECURSIVE ChunkSections(_, _, _)
ChunkSections(sections, i, budget) ==
    IF i > Len(sections) THEN <<>>
    ELSE ChunkSection(sections[i], budget)
         \o ChunkSections(sections, i + 1, budget)

\* the final filter left out
KeepAll(cs) == cs

\* `[chunk for chunk in chunks if chunk.strip()]`
RECURSIVE NonBlank(_)
NonBlank(cs) ==
    IF cs = <<>> THEN <<>>
    ELSE (IF Strip(Head(cs)) # <<>> THEN <<Head(cs)>> ELSE <<>>)
         \o NonBlank(Tail(cs))

smart_chunk(text, maxTokens) ==
    NonBlank(ChunkSections(Split(text, HeaderSep), 1, Budget(maxTokens)))


---------------------------------------------------------------------------
(* _calculate_confidence                                                   *)

\* Distances are counted in tenths: the distance 0.3 is the integer 3, and
\* np.mean(distances) < 0.3 is sum(distances) < 3 * len(distances).
HighBelow   == 3
MediumBelow == 6

RECURSIVE Sum(_)
Sum(ds) == IF ds = <<>> THEN 0 ELSE Head(ds) + Sum(Tail(ds))

\* avg_distance < threshold, for avg_distance = np.mean(ds)
MeanBelowOrAt(ds, threshold) == Sum(ds) <= threshold * Len(ds)

MeanBelow(ds, threshold) == Sum(ds) < threshold * Len(ds)

_calculate_confidence(ds) ==
    IF ds = <<>> THEN "none"
    ELSE IF MeanBelow(ds, HighBelow) THEN "high"
    ELSE IF MeanBelow(ds, MediumBelow) THEN "medium"
    ELSE "low"

---------------------------------------------------------------------------
(* _expand_query                                                           *)

\* the dict of trigger phrase and expansion terms, in insertion order
expansions ==
    <<
      <<
        <<"c", "a", "n", "'", "t">>,
        <<"c", "a", "n", "n", "o", "t", " ", "u", "n", "a", "b", "l",
          "e">>
      >>,
      <<
        <<"d", "o", "e", "s", "n", "'", "t", " ", "w", "o", "r", "k">>,
        <<"n", "o", "t", " ", "w", "o", "r", "k", "i", "n", "g", " ",
          "b", "r", "o", "k", "e", "n", " ", "e", "r", "r", "o", "r",
          " ", "f", "a", "i", "l">>
      >>,
      <<
        <<"p", "a", "y", "m", "e", "n", "t">>,
        <<"b", "i", "l", "l", "i", "n", "g", " ", "c", "h", "a", "r",
          "g", "e", " ", "s", "u", "b", "s", "c", "r", "i", "p", "t",
          "i", "o", "n", " ", "i", "n", "v", "o", "i", "c", "e">>
      >>,
      <<
        <<"l", "o", "g", "i", "n">>,
        <<"s", "i", "g", "n", " ", "i", "n", " ", "s", "i", "g", "n",
          "i", "n", " ", "a", "u", "t", "h", "e", "n", "t", "i", "c",
          "a", "t", "e">>
      >>,
      <<
        <<"p", "a", "s", "s", "w", "o", "r", "d">>,
        <<"c", "r", "e", "d", "e", "n", "t", "i", "a", "l", " ", "p",
          "a", "s", "s", "p", "h", "r", "a", "s", "e", " ", "p", "w",
          "d">>
      >>,
      <<
        <<"e", "x", "p", "o", "r", "t">>,
        <<"d", "o", "w", "n", "l", "o", "a", "d", " ", "s", "a", "v",
          "e", " ", "e", "x", "t", "r", "a", "c", "t">>
      >>,
      <<
        <<"d", "e", "l", "e", "t", "e">>,
        <<"r", "e", "m", "o", "v", "e", " ", "e", "r", "a", "s", "e",
          " ", "c", "l", "e", "a", "r">>
      >>,
      <<
        <<"c", "r", "e", "a", "t", "e">>,
        <<"m", "a", "k", "e", " ", "n", "e", "w", " ", "a", "d", "d">>
      >>,
      <<
        <<"u", "p", "d", "a", "t", "e">>,
        <<"e", "d", "i", "t", " ", "m", "o", "d", "i", "f", "y", " ",
          "c", "h", "a", "n", "g", "e">>
      >>
    >>

UpperCase ==
    <<"A", "B", "C", "D", "E", "F", "G", "H", "I", "J", "K", "L", "M",
      "N", "O", "P", "Q", "R", "S", "T", "U", "V", "W", "X", "Y", "Z">>

LowerCase ==
    <<"a", "b", "c", "d", "e", "f", "g", "h", "i", "j", "k", "l", "m",
      "n", "o", "p", "q", "r", "s", "t", "u", "v", "w", "x", "y", "z">>

\* str.lower()
Lower(s) ==
    [k \in DOMAIN s |->
        IF \E i \in DOMAIN UpperCase : UpperCase[i] = s[k]
        THEN LowerCase[CHOOSE i \in DOMAIN UpperCase : UpperCase[i] = s[k]]
        ELSE s[k]]

\* the loop over the dict stopping at the first trigger that fires
RECURSIVE ExpandFirstOnly(_, _)
ExpandFirstOnly(text, i) ==
    IF i > Len(expansions) THEN text
    ELSE IF Contains(text, expansions[i][1])
    THEN text \o <<" ">> \o expansions[i][2]
    ELSE ExpandFirstOnly(text, i + 1)

\* the loop over the dict from entry i on: `if term in expanded:
\* expanded += f" {synonyms}"`
RECURSIVE ExpandFrom(_, _)
ExpandFrom(text, i) ==
    IF i > Len(expansions) THEN text
    ELSE IF Contains(text, expansions[i][1])
    THEN ExpandFrom(text \o <<" ">> \o expansions[i][2], i + 1)
    ELSE ExpandFrom(text, i + 1)

_expand_query(query) == ExpandFrom(Lower(query), 1)

---------------------------------------------------------------------------
(* SmartHelpCenter: indexing                                               *)

\* A Python dict is a function on the keys it holds.  An article's title
\* and content are strings (sequences of characters); its article_id and
\* category are only compared, and are TLA+ strings.

NoRequest == [method |-> "none"]
NoResult  == [raised |-> FALSE, value |-> "none"]

\* `all(k in article for k in ['title', 'content', 'article_id'])`
RequiredFields == {"title", "content", "article_id"}

IsValid(a) == RequiredFields \subseteq DOMAIN a

\* f"{article['title']}\n\n{article['content']}"
FullText(a) == a.title \o <<"\n", "\n">> \o a.content

Metadata(a) ==
    [article_id |-> a.article_id,
     title      |-> a.title,
     category   |-> IF "category" \in DOMAIN a THEN a.category ELSE "general",
     char_count |-> Len(FullText(a))]

\* the vector the Embedder returns for a text under a task type
Embedding(text, task_type) == <<task_type, text>>

\* a collaborator call as the log of the running method records it
Call(service, what, ok) == [service |-> service, what |-> what, ok |-> ok]

\* ids numbered from 0 in every batch
DocIdsNoOffset(start_idx, n) == [i \in 1..n |-> <<"doc_", i - 1>>]

\* `[f"doc_{start_idx + i}" for i in range(len(documents_to_embed))]`
DocIds(start_idx, n) == [i \in 1..n |-> <<"doc_", start_idx + i - 1>>]

\* collection.add: the records are stored under their ids; a record whose
\* id the collection already holds is ignored
Add(coll, ids, embeddings, documents, metadatas) ==
    [id \in DOMAIN coll \cup {ids[i] : i \in DOMAIN ids} |->
        IF id \in DOMAIN coll THEN coll[id]
        ELSE LET i == CHOOSE i \in DOMAIN ids : ids[i] = id IN
             [embedding |-> embeddings[i],
              document  |-> documents[i],
              metadata  |-> metadatas[i]]]

\* The state of a running method: the collection, the collaborator calls
\* made so far, and whether an exception is propagating.  plan says which
\* collaborator calls fail: plan.embed is the set of Embedder calls that
\* raise and plan.store the VectorStore call that raises (0: none), both
\* counted within the method from 1.
CallsTo(st, service) ==
    Cardinality({i \in DOMAIN st.calls : st.calls[i].service = service})

\* lines 90-116: embed the documents of the batch and add them
EmbedAndStore(documents, metadatas, start_idx, st, plan) ==
    LET embedOk == (CallsTo(st, "Embedder") + 1) \notin plan.embed
        calls1  == Append(st.calls,
                          Call("Embedder", "RETRIEVAL_DOCUMENT", embedOk))
        addOk   == (CallsTo(st, "VectorStore") + 1) # plan.store
        calls2  == Append(calls1, Call("VectorStore", "add", addOk))
        embeddings ==
            [i \in DOMAIN documents |->
                Embedding(documents[i], "RETRIEVAL_DOCUMENT")]
    IN  IF ~embedOk
        THEN [st EXCEPT !.calls = calls1]
        ELSE IF ~addOk
        THEN [st EXCEPT !.calls = calls2, !.raised = TRUE]
        ELSE [st EXCEPT !.calls = calls2,
                        !.collection =
                            Add(st.collection,
                                DocIds(start_idx, Len(documents)),
                                embeddings, documents, metadatas)]

_index_batch(articles, start_idx, st, plan) ==
    LET valid == SelectSeq(articles, IsValid)
        documents_to_embed == [i \in DOMAIN valid |-> FullText(valid[i])]
        metadata_list      == [i \in DOMAIN valid |-> Metadata(valid[i])]
    IN  IF documents_to_embed = <<>>
        THEN st
        ELSE EmbedAndStore(documents_to_embed, metadata_list, start_idx,
                           st, plan)

Min(a, b) == IF a <= b THEN a ELSE b

\* IndexFrom ending the loop at the first batch whose embedding fails
RECURSIVE IndexFromStopOnFailure(_, _, _, _, _)
IndexFromStopOnFailure(articles, batch_size, i, st, plan) ==
    IF \/ i >= Len(articles)
       \/ st.raised
       \/ (st.calls # <<>> /\ ~st.calls[Len(st.calls)].ok)
    THEN st
    ELSE IndexFromStopOnFailure(articles, batch_size, i + batch_size,
                   _index_batch(SubSeq(articles, i + 1,
                                       Min(i + batch_size, Len(articles))),
                                i, st, plan),
                   plan)

\* `for i in range(0, len(articles), batch_size)`, from i on; an exception
\* ends the loop
RECURSIVE IndexFrom(_, _, _, _, _)
IndexFrom(articles, batch_size, i, st, plan) ==
    IF i >= Len(articles) \/ st.raised THEN st
    ELSE IndexFrom(articles, batch_size, i + batch_size,
                   _index_batch(SubSeq(articles, i + 1,
                                       Min(i + batch_size, Len(articles))),
                                i, st, plan),
                   plan)

\* index_help_articles without the guards against an empty list
index_help_articles_unguarded(articles, batch_size, st, plan) ==
    LET valid == SelectSeq(articles, IsValid) IN
    EmbedAndStore([i \in DOMAIN valid |-> FullText(valid[i])],
                  [i \in DOMAIN valid |-> Metadata(valid[i])], 0, st, plan)

index_help_articles(articles, batch_size, st, plan) ==
    IF articles = <<>> THEN st
    ELSE IndexFrom(articles, batch_size, 0, st, plan)

---------------------------------------------------------------------------
(* The inputs of smart_chunk                                               *)

MaxPieces == 5
MaxTokens == 2

\* the pieces the input texts are built from: words of 1 and 4 letters,
\* whitespace, a full stop, and the three separators
Pieces ==
    { <<"a">>, <<"a", "a", "a", "a">>, <<" ">>, <<".">>,
      SentenceSep, ParagraphSep, HeaderSep }

RECURSIVE Texts(_)
Texts(n) ==
    IF n = 0 THEN {<<>>}
    ELSE LET shorter == Texts(n - 1) IN
         shorter \cup {t \o p : t \in shorter, p \in Pieces}

\* the variables of the functions a specification does not call
ChunkUnused  == article = <<>> /\ max_tokens = 0 /\ chunks = <<>>
ConfUnused   == distances = <<>> /\ confidence = ""
ExpandUnused == user_query = <<>> /\ expanded = <<>>
CenterUnused ==
    /\ collection = <<>>
    /\ collection_exists = TRUE
    /\ request = NoRequest
    /\ calls = <<>>
    /\ result = NoResult

InitChunk ==
    /\ pc = "input"
    /\ article \in Texts(MaxPieces)
    /\ max_tokens \in 1..MaxTokens
    /\ chunks = <<>>
    /\ ConfUnused
    /\ ExpandUnused
    /\ CenterUnused

Chunk ==
    /\ pc = "input"
    /\ chunks' = smart_chunk(article, max_tokens)
    /\ pc' = "done"
    /\ UNCHANGED <<article, max_tokens, confVars, expandVars, centerVars>>

NextChunk == Chunk

SpecChunk == InitChunk /\ [][NextChunk]_vars

---------------------------------------------------------------------------
(* The inputs of _calculate_confidence                                     *)

MaxDistances == 3
MaxDistance  == 9

RECURSIVE DistanceLists(_)
DistanceLists(n) ==
    IF n = 0 THEN {<<>>}
    ELSE LET shorter == DistanceLists(n - 1) IN
         shorter \cup {Append(ds, d) : ds \in shorter, d \in 0..MaxDistance}

InitConfidence ==
    /\ pc = "input"
    /\ distances \in DistanceLists(MaxDistances)
    /\ confidence = ""
    /\ ChunkUnused
    /\ ExpandUnused
    /\ CenterUnused

CalculateConfidence ==
    /\ pc = "input"
    /\ confidence' = _calculate_confidence(distances)
    /\ pc' = "done"
    /\ UNCHANGED <<distances, chunkVars, expandVars, centerVars>>

NextConfidence == CalculateConfidence

SpecConfidence == InitConfidence /\ [][NextConfidence]_vars

---------------------------------------------------------------------------
(* The inputs of _expand_query                                             *)

MaxWords == 3

QueryWords ==
    { <<"I">>,
      <<" ", "c", "a", "n", "'", "t">>,
      <<" ", "l", "o", "g", "i", "n">>,
      <<" ", "P", "a", "y", "m", "e", "n", "t">>,
      <<" ", "d", "o", "e", "s", "n", "'", "t">>,
      <<" ", "w", "o", "r", "k">>,
      <<" ", "e", "x", "p", "o", "r", "t">>,
      <<"l", "o", "g">>,
      <<"i", "n">> }

RECURSIVE Queries(_)
Queries(n) ==
    IF n = 0 THEN {<<>>}
    ELSE LET shorter == Queries(n - 1) IN
         shorter \cup {q \o w : q \in shorter, w \in QueryWords}

InitExpand ==
    /\ pc = "input"
    /\ user_query \in Queries(MaxWords)
    /\ expanded = <<>>
    /\ ChunkUnused
    /\ ConfUnused
    /\ CenterUnused

ExpandQuery ==
    /\ pc = "input"
    /\ expanded' = _expand_query(user_query)
    /\ pc' = "done"
    /\ UNCHANGED <<user_query, chunkVars, confVars, centerVars>>

NextExpand == ExpandQuery

SpecExpand == InitExpand /\ [][NextExpand]_vars

\* the query of the specification's example
ICantLogin ==
    <<"I", " ", "c", "a", "n", "'", "t", " ", "l", "o", "g", "i", "n">>

---------------------------------------------------------------------------
(* SmartHelpCenter: answering                                              *)

\* None, where a string is expected
None == "None"

\* `{"category": category_filter} if category_filter else None`: the set
\* of the (key, value) conditions of the where clause, empty for None
WhereClause(category_filter) ==
    IF category_filter # None /\ category_filter # ""
    THEN {<<"category", category_filter>>}
    ELSE {}

\* the ids of the records collection.query may return under a where clause
Matching(coll, where) ==
    {id \in DOMAIN coll :
        \A cond \in where : coll[id].metadata[cond[1]] = cond[2]}

\* `results['documents'][0][i][:200] + "..."`
SnippetLength == 200

Snippet(document) ==
    SubSeq(document, 1, Min(SnippetLength, Len(document)))
        \o <<".", ".", ".">>

\* lines 230-237: the Generator's text, or the error string when it raises
_generate_support_response(ok) ==
    IF ok THEN "response.text"
    ELSE "I found relevant articles but encountered an error generating a response"

\* FormatResponse giving the distance as the relevance score
FormatResponseDistanceAsScore(coll, ids, dists, st, generateOk) ==
    [st EXCEPT
        !.calls = Append(@, Call("Generator", "generate", generateOk)),
        !.value =
            [answer |-> _generate_support_response(generateOk),
             relevant_articles |->
                 [i \in DOMAIN ids |->
                     [title           |-> coll[ids[i]].metadata.title,
                      article_id      |-> coll[ids[i]].metadata.article_id,
                      category        |-> coll[ids[i]].metadata.category,
                      relevance_score |-> dists[i],
                      snippet         |-> Snippet(coll[ids[i]].document)]],
             confidence |-> _calculate_confidence(dists)]]

\* lines 172-191: the result built from the matches the store returned;
\* ids and dists are results['ids'][0] and results['distances'][0]
FormatResponse(coll, ids, dists, st, generateOk) ==
    [st EXCEPT
        !.calls = Append(@, Call("Generator", "generate", generateOk)),
        !.value =
            [answer |-> _generate_support_response(generateOk),
             relevant_articles |->
                 [i \in DOMAIN ids |->
                     [title           |-> coll[ids[i]].metadata.title,
                      article_id      |-> coll[ids[i]].metadata.article_id,
                      category        |-> coll[ids[i]].metadata.category,
                      relevance_score |-> 10 - dists[i],
                      snippet         |-> Snippet(coll[ids[i]].document)]],
             confidence |-> _calculate_confidence(dists)]]

\* the call of collection.query (lines 159-163) with the matches it
\* returned, none when it raised
QueryCall(ok, ids, dists) ==
    [service   |-> "VectorStore",
     what      |-> "query",
     ok        |-> ok,
     ids       |-> IF ok THEN ids ELSE <<>>,
     distances |-> IF ok THEN dists ELSE <<>>]

\* answer_support_query without the `if not results['ids'][0]` return
answer_support_query_unguarded(query, top_k, category_filter, st, plan, ids, dists) ==
    LET embedOk == (CallsTo(st, "Embedder") + 1) \notin plan.embed
        st1 == [st EXCEPT !.calls =
                   Append(@, Call("Embedder", "RETRIEVAL_QUERY", embedOk))]
        queryOk == (CallsTo(st, "VectorStore") + 1) # plan.store
        st2 == [st1 EXCEPT !.calls = Append(@, QueryCall(queryOk, ids, dists))]
    IN  IF ~embedOk
        THEN [st1 EXCEPT !.value =
                 [answer |-> "Error processing query",
                  relevant_articles |-> <<>>,
                  confidence |-> "error"]]
        ELSE IF ~queryOk
        THEN [st2 EXCEPT !.raised = TRUE]
        ELSE FormatResponse(st.collection, ids, dists, st2, ~plan.generate)

\* ids and dists are what collection.query returns when it does not raise;
\* plan.generate says whether the Generator raises
answer_support_query(query, top_k, category_filter, st, plan, ids, dists) ==
    LET expanded_query == _expand_query(query)
        embedOk == (CallsTo(st, "Embedder") + 1) \notin plan.embed
        st1 == [st EXCEPT !.calls =
                   Append(@, Call("Embedder", "RETRIEVAL_QUERY", embedOk))]
        queryOk == (CallsTo(st, "VectorStore") + 1) # plan.store
        st2 == [st1 EXCEPT !.calls = Append(@, QueryCall(queryOk, ids, dists))]
    IN  IF ~embedOk
        THEN [st1 EXCEPT !.value =
                 [answer |-> "Error processing query",
                  relevant_articles |-> <<>>,
                  confidence |-> "error"]]
        ELSE IF ~queryOk
        THEN [st2 EXCEPT !.raised = TRUE]
        ELSE IF ids = <<>>
        THEN [st2 EXCEPT !.value =
                 [answer |-> "I couldn't find any relevant articles for your question.",
                  relevant_articles |-> <<>>,
                  confidence |-> "none"]]
        ELSE FormatResponse(st.collection, ids, dists, st2, ~plan.generate)

---------------------------------------------------------------------------
(* SmartHelpCenter: clearing and counting                                  *)

\* clear_all_articles, lines 287-297: delete_collection then
\* create_collection in one try; an error of either is printed.  When the
\* collection was deleted and not created again, self.collection is left
\* referring to a collection that no longer exists.
clear_all_articles(st, plan) ==
    LET deleteOk == (CallsTo(st, "VectorStore") + 1) # plan.store
        st1 == [st EXCEPT !.calls =
                   Append(@, Call("VectorStore", "delete_collection", deleteOk))]
        createOk == (CallsTo(st1, "VectorStore") + 1) # plan.store
        st2 == [st1 EXCEPT !.calls =
                   Append(@, Call("VectorStore", "create_collection", createOk)),
                           !.collection = <<>>]
    IN  IF ~deleteOk THEN st1
        ELSE IF ~createOk THEN [st2 EXCEPT !.exists = FALSE]
        ELSE st2

\* the sum of the char_count of the records with the given ids
RECURSIVE TotalChars(_, _)
TotalChars(coll, ids) ==
    IF ids = {} THEN 0
    ELSE LET id == CHOOSE x \in ids : TRUE IN
         coll[id].metadata.char_count + TotalChars(coll, ids \ {id})

\* the quotient n / d of a true division
Quotient(n, d) == [dividend |-> n, divisor |-> d]

\* lines 262 and 281-285: the statistics of no article
NoStatistics ==
    [total_articles     |-> 0,
     categories         |-> [c \in {} |-> 0],
     avg_article_length |-> Quotient(0, 1)]

\* get_statistics without the try
get_statistics_uncaught(st, plan) ==
    LET getOk == (CallsTo(st, "VectorStore") + 1) # plan.store
        st1 == [st EXCEPT !.calls = Append(@, Call("VectorStore", "get", getOk))]
        ids == DOMAIN st.collection
        cats == {st.collection[id].metadata.category : id \in ids}
    IN  IF ~getOk THEN [st1 EXCEPT !.raised = TRUE]
        ELSE IF ids = {} THEN [st1 EXCEPT !.value = NoStatistics]
        ELSE [st1 EXCEPT !.value =
                 [total_articles |-> Cardinality(ids),
                  categories |->
                      [c \in cats |->
                          Cardinality({id \in ids :
                              st.collection[id].metadata.category = c})],
                  avg_article_length |->
                      Quotient(TotalChars(st.collection, ids), Cardinality(ids))]]

\* get_statistics, lines 252-285: collection.get() and the counts over its
\* metadatas; an error of the store is printed and the statistics of no
\* article are returned
get_statistics(st, plan) ==
    LET getOk == (CallsTo(st, "VectorStore") + 1) # plan.store
        st1 == [st EXCEPT !.calls = Append(@, Call("VectorStore", "get", getOk))]
        ids == DOMAIN st.collection
        cats == {st.collection[id].metadata.category : id \in ids}
    IN  IF ~getOk THEN [st1 EXCEPT !.value = NoStatistics]
        ELSE IF ids = {} THEN [st1 EXCEPT !.value = NoStatistics]
        ELSE [st1 EXCEPT !.value =
                 [total_articles |-> Cardinality(ids),
                  categories |->
                      [c \in cats |->
                          Cardinality({id \in ids :
                              st.collection[id].metadata.category = c})],
                  avg_article_length |->
                      Quotient(TotalChars(st.collection, ids), Cardinality(ids))]]

---------------------------------------------------------------------------
(* SmartHelpCenter: the calls of a client                                  *)

MaxArticles  == 3
MaxBatchSize == 2
MaxTopK      == 2

Title1 == <<"R", "e", "s", "e", "t">>
Title2 == <<"P", "a", "y">>

Content1 == <<"C", "l", "i", "c", "k", ".">>

\* a content longer than a snippet
Content2 == [i \in 1..(SnippetLength + 10) |-> "x"]

\* the articles a client passes: two well-formed ones, the second without a
\* category, and one without content
ArticlePool ==
    { [article_id |-> "pwd-001", title |-> Title1, content |-> Content1,
       category |-> "account"],
      [article_id |-> "bill-001", title |-> Title2, content |-> Content2],
      [article_id |-> "exp-001", title |-> Title1, category |-> "account"] }

RECURSIVE ArticleLists(_)
ArticleLists(n) ==
    IF n = 0 THEN {<<>>}
    ELSE LET shorter == ArticleLists(n - 1) IN
         shorter \cup {Append(l, a) : l \in shorter, a \in ArticlePool}

UserQueries == { ICantLogin, <<"h", "e", "l", "p">> }

CategoryFilters == { None, "", "account" }

\* the distances a query may get, in tenths
QueryDistances == {0, 3, 6}

\* the sequences of n different elements of S
RECURSIVE Arrangements(_, _)
Arrangements(S, n) ==
    IF n = 0 THEN {<<>>}
    ELSE UNION {{<<x>> \o r : r \in Arrangements(S \ {x}, n - 1)} : x \in S}

\* the ascending sequences of n distances
RECURSIVE AscendingDistances(_)
AscendingDistances(n) ==
    IF n = 0 THEN {<<>>}
    ELSE {Append(ds, d) : ds \in AscendingDistances(n - 1), d \in QueryDistances}
         \cap {ds \in Seq(QueryDistances) :
                  \A i \in 1..(Len(ds) - 1) : ds[i] <= ds[i + 1]}

Running == [collection |-> collection, exists |-> collection_exists,
            calls |-> <<>>, raised |-> FALSE, value |-> None]

Finish(st) ==
    /\ collection' = st.collection
    /\ collection_exists' = st.exists
    /\ calls' = st.calls
    /\ result' = [raised |-> st.raised,
                  value |-> IF st.raised THEN "exception" ELSE st.value]
    /\ pc' = "returned"

Init ==
    /\ pc = "idle"
    /\ collection = <<>>
    /\ collection_exists = TRUE
    /\ request = NoRequest
    /\ calls = <<>>
    /\ result = NoResult
    /\ ChunkUnused
    /\ ConfUnused
    /\ ExpandUnused

\* which of the n calls of the store a method makes may fail (0: none): any
\* of them, and the first one when the collection no longer exists
StoreFailures(n) ==
    IF collection_exists THEN 0..n ELSE {Min(1, n)}

IndexHelpArticles ==
    /\ pc = "idle"
    /\ \E articles \in ArticleLists(MaxArticles), batch_size \in 1..MaxBatchSize :
        LET batches == (Len(articles) + batch_size - 1) \div batch_size IN
        \E embedFails \in SUBSET (1..batches),
           storeFails \in StoreFailures(batches) :
            /\ request' = [method |-> "index_help_articles",
                           articles |-> articles,
                           batch_size |-> batch_size,
                           before |-> collection]
            /\ Finish(index_help_articles(
                   articles, batch_size, Running,
                   [embed |-> embedFails, store |-> storeFails,
                    generate |-> FALSE]))
    /\ UNCHANGED <<chunkVars, confVars, expandVars>>

AnswerSupportQuery ==
    /\ pc = "idle"
    /\ \E query \in UserQueries, top_k \in 1..MaxTopK,
          category_filter \in CategoryFilters,
          embedFails \in SUBSET {1}, storeFails \in StoreFailures(1),
          generateFails \in BOOLEAN :
        LET matching == Matching(collection, WhereClause(category_filter))
            n == Min(top_k, Cardinality(matching))
        IN  \E ids \in Arrangements(matching, n), dists \in AscendingDistances(n) :
            /\ request' = [method |-> "answer_support_query",
                           user_query |-> query,
                           top_k |-> top_k,
                           category_filter |-> category_filter,
                           before |-> collection]
            /\ Finish(answer_support_query(
                   query, top_k, category_filter, Running,
                   [embed |-> embedFails, store |-> storeFails,
                    generate |-> generateFails],
                   ids, dists))
    /\ UNCHANGED <<chunkVars, confVars, expandVars>>

ClearAllArticles ==
    /\ pc = "idle"
    /\ \E storeFails \in StoreFailures(2) :
        /\ request' = [method |-> "clear_all_articles", before |-> collection]
        /\ Finish(clear_all_articles(
               Running, [embed |-> {}, store |-> storeFails, generate |-> FALSE]))
    /\ UNCHANGED <<chunkVars, confVars, expandVars>>

\* the method that returned just before get_statistics was called, when the
\* client called it straight after
NoneBefore == [method |-> "none", before |-> <<>>, calls |-> <<>>]

GetStatistics ==
    /\ pc = "idle"
    /\ \E storeFails \in StoreFailures(1) :
        /\ request' = [method |-> "get_statistics", before |-> collection,
                       follows |-> NoneBefore]
        /\ Finish(get_statistics(
               Running, [embed |-> {}, store |-> storeFails, generate |-> FALSE]))
    /\ UNCHANGED <<chunkVars, confVars, expandVars>>

\* the client takes the result of clear_all_articles and calls
\* get_statistics next
GetStatisticsAfterClear ==
    /\ pc = "returned"
    /\ request.method = "clear_all_articles"
    /\ \E storeFails \in StoreFailures(1) :
        /\ request' = [method |-> "get_statistics", before |-> collection,
                       follows |-> [method |-> request.method,
                                    before |-> request.before,
                                    calls  |-> calls]]
        /\ Finish(get_statistics(
               Running, [embed |-> {}, store |-> storeFails, generate |-> FALSE]))
    /\ UNCHANGED <<chunkVars, confVars, expandVars>>

\* the client takes the result and is ready for its next call
Return ==
    /\ pc = "returned"
    /\ pc' = "idle"
    /\ request' = NoRequest
    /\ calls' = <<>>
    /\ result' = NoResult
    /\ UNCHANGED <<collection, collection_exists, chunkVars, confVars,
                   expandVars>>

Next ==
    \/ IndexHelpArticles
    \/ AnswerSupportQuery
    \/ ClearAllArticles
    \/ GetStatistics
    \/ GetStatisticsAfterClear
    \/ Return

Spec == Init /\ [][Next]_vars

---------------------------------------------------------------------------
(* Properties of smart_chunk                                               *)

RawChunks == ChunkSections(Split(article, HeaderSep), 1, Budget(max_tokens))

HasNoSeparator(text) ==
    /\ ~Contains(text, HeaderSep)
    /\ ~Contains(text, ParagraphSep)
    /\ ~Contains(text, SentenceSep)

\* C2 as stated: a text shorter than the budget gives exactly one chunk,
\* the trimmed text.
C2_ShortTextGivesTrimmedText ==
    (pc = "done" /\ Len(article) < Budget(max_tokens))
        => chunks = <<Strip(article)>>

\* C2 as amended: a text shorter than the budget that holds no header marker
\* and at least one non-whitespace character gives exactly one chunk, the
\* text itself, untrimmed.
C2_ShortTextGivesItself ==
    (/\ pc = "done"
     /\ Len(article) < Budget(max_tokens)
     /\ ~Contains(article, HeaderSep)
     /\ Strip(article) # <<>>)
        => chunks = <<article>>

C2_Witness ==
    /\ pc = "done"
    /\ Len(article) < Budget(max_tokens)
    /\ ~Contains(article, HeaderSep)
    /\ Strip(article) # <<>>
    /\ Strip(article) # article
    /\ chunks = <<article>>

\* a sentence of the text as it stands in the text (with the full stop that
\* ends it, when one follows) is longer than the budget, and c is that
\* sentence as the sentence loop emits it
IsOversizeSentence(c, text, budget) ==
    \E si \in DOMAIN Split(text, HeaderSep) :
      LET paragraphs == Split(Split(text, HeaderSep)[si], ParagraphSep) IN
      \E pi \in DOMAIN paragraphs :
        LET sentences == Split(paragraphs[pi], SentenceSep) IN
        \E k \in DOMAIN sentences :
          /\ \/ Len(sentences[k]) > budget
             \/ k < Len(sentences) /\ Len(sentences[k]) + 1 > budget
          /\ c = Strip(sentences[k] \o SentenceSep)

\* C3: every chunk is at most max_tokens*4 characters long, or is a single
\* sentence (or paragraph without sentence breaks) that by itself exceeds
\* the budget.
C3_ChunkWithinBudgetOrOversizeSentence ==
    pc = "done" =>
        \A i \in DOMAIN chunks :
            \/ Len(chunks[i]) <= Budget(max_tokens)
            \/ IsOversizeSentence(chunks[i], article, Budget(max_tokens))

\* the chunks cs occur in text at or after position from, one after the
\* other, without overlap
RECURSIVE OrderedSubstrings(_, _, _)
OrderedSubstrings(cs, text, from) ==
    IF cs = <<>> THEN TRUE
    ELSE LET p == Find(text, Head(cs), from) IN
         /\ p # 0
         /\ OrderedSubstrings(Tail(cs), text, p + Len(Head(cs)))

\* C4: every chunk is a contiguous substring of the input, and the chunks
\* appear in the order of their text in the input.
C4_ChunksAreOrderedSubstrings ==
    pc = "done" => OrderedSubstrings(chunks, article, 1)

HasNonBlankSection(text) ==
    \E i \in DOMAIN Split(text, HeaderSep) :
        Strip(Split(text, HeaderSep)[i]) # <<>>

C6_NoBlankChunk ==
    pc = "done" => \A i \in DOMAIN chunks : Strip(chunks[i]) # <<>>

C6_Witness ==
    /\ pc = "done"
    /\ \E i \in DOMAIN RawChunks : Strip(RawChunks[i]) = <<>>
    /\ Len(chunks) >= 1
    /\ Len(chunks) < Len(RawChunks)

---------------------------------------------------------------------------
(* Properties of _calculate_confidence                                     *)

\* the sum of the distances over the threshold t: negative exactly when the
\* arithmetic mean is below t
RECURSIVE Excess(_, _)
Excess(ds, t) == IF ds = <<>> THEN 0 ELSE (Head(ds) - t) + Excess(Tail(ds), t)

\* C7: the label is "none" for the empty list and otherwise "high" for a
\* mean below 0.3, "medium" for a mean from 0.3 and below 0.6, "low" for a
\* mean of 0.6 or more; one of the four labels is returned for every input.
C7_ConfidenceLabel ==
    pc = "done" =>
        /\ confidence \in {"none", "high", "medium", "low"}
        /\ distances = <<>> => confidence = "none"
        /\ distances # <<>> =>
            /\ Excess(distances, 3) < 0 => confidence = "high"
            /\ (Excess(distances, 3) >= 0 /\ Excess(distances, 6) < 0)
                   => confidence = "medium"
            /\ Excess(distances, 6) >= 0 => confidence = "low"

\* a mean of exactly 0.3 over two different distances
C7_Witness ==
    /\ pc = "done"
    /\ Len(distances) = 2
    /\ distances[1] # distances[2]
    /\ distances[1] + distances[2] = 6
    /\ confidence = "medium"

---------------------------------------------------------------------------
(* Properties of _expand_query                                             *)

CannotUnable ==
    <<"c", "a", "n", "n", "o", "t", " ", "u", "n", "a", "b", "l", "e">>

SignInSigninAuthenticate ==
    <<"s", "i", "g", "n", " ", "i", "n", " ", "s", "i", "g", "n", "i",
      "n", " ", "a", "u", "t", "h", "e", "n", "t", "i", "c", "a", "t",
      "e">>

\* the expansion terms, each after a space, of the triggers from entry i on
\* that occur in the lower-cased query itself
RECURSIVE TriggeredTerms(_, _)
TriggeredTerms(query, i) ==
    IF i > Len(expansions) THEN <<>>
    ELSE (IF Contains(Lower(query), expansions[i][1])
          THEN <<" ">> \o expansions[i][2]
          ELSE <<>>)
         \o TriggeredTerms(query, i + 1)

\* C8: the result is the lower-cased query followed by the expansion terms
\* of exactly the triggers that occur in the lower-cased query, once each,
\* in the order of the mapping; "I can't login" yields "cannot unable" and
\* "sign in signin authenticate".
C8_ExpandedQuery ==
    pc = "done" =>
        /\ expanded = Lower(user_query) \o TriggeredTerms(user_query, 1)
        /\ user_query = ICantLogin =>
            /\ Contains(expanded, CannotUnable)
            /\ Contains(expanded, SignInSigninAuthenticate)

C8_Witness ==
    /\ pc = "done"
    /\ user_query = ICantLogin
    /\ Contains(expanded, CannotUnable)
    /\ Contains(expanded, SignInSigninAuthenticate)
    /\ Len(expanded) > Len(user_query)

---------------------------------------------------------------------------
(* Properties of SmartHelpCenter                                           *)

Indexed  == pc = "returned" /\ request.method = "index_help_articles"
Answered == pc = "returned" /\ request.method = "answer_support_query"

SomeCallFailed == \E i \in DOMAIN calls : ~calls[i].ok

\* C1: whenever a call to the Embedder, the VectorStore or the Generator made
\* by index_help_articles or answer_support_query fails, the method catches
\* the error and returns; the error is never propagated to the caller.
C1_FailuresAreCaught ==
    ((Indexed \/ Answered) /\ SomeCallFailed) => ~result.raised

\* C9: index_help_articles with an empty list makes no call to a
\* collaborator and leaves the collection as it was (empty when it was
\* empty).
C9_EmptyListIsNoOp ==
    (Indexed /\ request.articles = <<>>) =>
        /\ calls = <<>>
        /\ ~result.raised
        /\ collection = request.before
        /\ request.before = <<>> => Cardinality(DOMAIN collection) = 0

C9_Witness ==
    /\ Indexed
    /\ request.articles = <<>>
    /\ request.before = <<>>
    /\ calls = <<>>
    /\ collection = <<>>

\* the positions of the articles that have the three required fields
WellFormed(articles) ==
    {i \in DOMAIN articles :
        /\ "title" \in DOMAIN articles[i]
        /\ "content" \in DOMAIN articles[i]
        /\ "article_id" \in DOMAIN articles[i]}

\* the metadata an article is to be stored with
ExpectedMetadata(a) ==
    [article_id |-> a.article_id,
     title      |-> a.title,
     category   |-> IF "category" \in DOMAIN a THEN a.category ELSE "general",
     char_count |-> Len(a.title) + 2 + Len(a.content)]

\* the batches (numbered from 0) that hold a well-formed article
BatchesToEmbed(articles, batch_size) ==
    {(i - 1) \div batch_size : i \in WellFormed(articles)}

\* C10: from an empty collection, after one index_help_articles call in
\* which no collaborator call fails, the collection holds exactly one record
\* per article that has title, content and article_id, under distinct ids,
\* with the metadata of that article; articles missing a field leave no
\* record, and the Embedder is called once per batch that holds a
\* well-formed article and never for a batch of malformed articles only.
C10_MalformedArticlesAreSkipped ==
    (Indexed /\ request.before = <<>> /\ ~SomeCallFailed) =>
        LET articles == request.articles
            good == WellFormed(articles)
        IN  /\ ~result.raised
            /\ Cardinality(DOMAIN collection) = Cardinality(good)
            /\ \A i \in good :
                Cardinality({id \in DOMAIN collection :
                    collection[id].metadata = ExpectedMetadata(articles[i])})
                = Cardinality({j \in good :
                    ExpectedMetadata(articles[j]) = ExpectedMetadata(articles[i])})
            /\ Cardinality({k \in DOMAIN calls : calls[k].service = "Embedder"})
                = Cardinality(BatchesToEmbed(articles, request.batch_size))

\* three articles in batches of one: the first lacks a field, the other two
\* are stored
C10_Witness ==
    /\ Indexed
    /\ request.before = <<>>
    /\ ~SomeCallFailed
    /\ request.batch_size = 1
    /\ Len(request.articles) = 3
    /\ WellFormed(request.articles) = {2, 3}
    /\ Cardinality(DOMAIN collection) = 2
    /\ Len(calls) = 4

\* the elements of a set of numbers in ascending order
RECURSIVE Ascending(_)
Ascending(S) ==
    IF S = {} THEN <<>>
    ELSE LET least == CHOOSE x \in S : \A y \in S : x <= y IN
         <<least>> \o Ascending(S \ {least})

\* what became of the batches, read off the collaborator calls in the order
\* they were made: an Embedder call that failed, or an Embedder call that
\* succeeded and the collection.add that follows it
RECURSIVE BatchOutcomes(_)
BatchOutcomes(log) ==
    IF log = <<>> THEN <<>>
    ELSE IF Head(log).service = "Embedder" /\ ~Head(log).ok
    THEN <<"embedding failed">> \o BatchOutcomes(Tail(log))
    ELSE IF /\ Head(log).service = "Embedder"
            /\ Len(log) >= 2
            /\ log[2].service = "VectorStore"
            /\ log[2].what = "add"
    THEN <<IF log[2].ok THEN "committed" ELSE "add failed">>
         \o BatchOutcomes(Tail(Tail(log)))
    ELSE <<"out of order">>

\* the batch (numbered from 0) of the article at position i
BatchOf(i, batch_size) == (i - 1) \div batch_size

\* the id the well-formed article at position i is stored under
IdOf(articles, batch_size, i) ==
    <<"doc_",
      BatchOf(i, batch_size) * batch_size
          + Cardinality({j \in WellFormed(articles) :
                /\ BatchOf(j, batch_size) = BatchOf(i, batch_size)
                /\ j < i})>>

\* the well-formed articles of the batches with a given outcome, the n-th
\* outcome being that of the n-th batch, in submission order, that holds a
\* well-formed article
ArticlesWithOutcome(articles, batch_size, outcomes, which) ==
    LET todo == Ascending(BatchesToEmbed(articles, batch_size)) IN
    {i \in WellFormed(articles) :
        \E n \in DOMAIN outcomes :
            /\ n <= Len(todo)
            /\ todo[n] = BatchOf(i, batch_size)
            /\ outcomes[n] \in which}

IsCall(c, service, what) == c.service = service /\ c.what = what

\* C12: a query calls the Embedder in RETRIEVAL_QUERY mode, then
\* collection.query, then the Generator, each at most once: the store is
\* queried only after the embedding succeeded and the Generator is called
\* only when the store returned a match.  A failed embedding gives
\* confidence "error", no article and no further call; a store that returns
\* no match gives confidence "none", no article and no Generator call; no
\* document is embedded by a query.
C12_CallOrder ==
    Answered =>
        /\ Len(calls) \in 1..3
        /\ IsCall(calls[1], "Embedder", "RETRIEVAL_QUERY")
        /\ Len(calls) >= 2 =>
            /\ calls[1].ok
            /\ IsCall(calls[2], "VectorStore", "query")
        /\ Len(calls) = 3 =>
            /\ calls[2].ok
            /\ calls[2].ids # <<>>
            /\ IsCall(calls[3], "Generator", "generate")
        /\ \A i \in DOMAIN calls :
               ~IsCall(calls[i], "Embedder", "RETRIEVAL_DOCUMENT")
        /\ ~calls[1].ok =>
            /\ Len(calls) = 1
            /\ ~result.raised
            /\ result.value.confidence = "error"
            /\ result.value.relevant_articles = <<>>
        /\ (Len(calls) >= 2 /\ calls[2].ok /\ calls[2].ids = <<>>) =>
            /\ Len(calls) = 2
            /\ ~result.raised
            /\ result.value.confidence = "none"
            /\ result.value.relevant_articles = <<>>

\* a filtered query of a store that holds articles of another category
\* only: the store is queried and returns no match
C12_Witness ==
    /\ Answered
    /\ request.before # <<>>
    /\ request.category_filter = "account"
    /\ Len(calls) = 2
    /\ calls[2].ok
    /\ calls[2].ids = <<>>
    /\ result.value.confidence = "none"

\* s is the beginning of t
IsPrefix(s, t) == Len(s) <= Len(t) /\ s = SubSeq(t, 1, Len(s))

\* the query returned with matches from the store
AnsweredWithMatches ==
    /\ Answered
    /\ Len(calls) >= 2
    /\ calls[2].ok
    /\ calls[2].ids # <<>>

\* C13 but for the snippet: with n >= 1 matches the result has n articles
\* in the store's order, by non-increasing relevance score, the i-th with
\* the metadata of the i-th match and the score 1 - distance_i; the
\* confidence is the label of these n distances, never "none" or "error";
\* a Generator failure changes the answer only.
MatchesAreReported ==
    AnsweredWithMatches =>
        LET ids   == calls[2].ids
            dists == calls[2].distances
            found == result.value.relevant_articles
        IN  /\ ~result.raised
            /\ Len(calls) = 3
            /\ result.value.answer =
                   (IF calls[3].ok THEN "response.text"
                    ELSE "I found relevant articles but encountered an error generating a response")
            /\ Len(found) = Len(ids)
            /\ \A i \in DOMAIN ids :
                LET stored == request.before[ids[i]] IN
                /\ found[i].article_id = stored.metadata.article_id
                /\ found[i].title = stored.metadata.title
                /\ found[i].category = stored.metadata.category
                /\ found[i].relevance_score = 10 - dists[i]
                /\ i < Len(ids) =>
                       found[i].relevance_score >= found[i + 1].relevance_score
            /\ result.value.confidence \in {"high", "medium", "low"}
            /\ Excess(dists, 3) < 0 => result.value.confidence = "high"
            /\ (Excess(dists, 3) >= 0 /\ Excess(dists, 6) < 0)
                   => result.value.confidence = "medium"
            /\ Excess(dists, 6) >= 0 => result.value.confidence = "low"

\* C13 as stated: the matches are reported as above and the snippet of the
\* i-th article is a prefix of the text of the i-th match.
C13_SnippetIsPrefix ==
    /\ MatchesAreReported
    /\ AnsweredWithMatches =>
           \A i \in DOMAIN calls[2].ids :
               IsPrefix(result.value.relevant_articles[i].snippet,
                        request.before[calls[2].ids[i]].document)

\* C13 as amended: the matches are reported as above and the snippet of the
\* i-th article is the first 200 characters of the text of the i-th match,
\* the whole text when it is shorter, followed by "...".
C13_SnippetIsPrefixAndEllipsis ==
    /\ MatchesAreReported
    /\ AnsweredWithMatches =>
           \A i \in DOMAIN calls[2].ids :
               LET snippet == result.value.relevant_articles[i].snippet
                   text    == request.before[calls[2].ids[i]].document
                   kept    == Len(snippet) - 3
               IN  /\ kept = Min(200, Len(text))
                   /\ IsPrefix(SubSeq(snippet, 1, kept), text)
                   /\ SubSeq(snippet, kept + 1, Len(snippet)) = <<".", ".", ".">>

\* two matches at different distances, a short text and one longer than a
\* snippet, and the Generator fails
C13_Witness ==
    /\ AnsweredWithMatches
    /\ Len(calls) = 3
    /\ ~calls[3].ok
    /\ Len(calls[2].ids) = 2
    /\ calls[2].distances = <<0, 6>>
    /\ \E i \in 1..2 : Len(request.before[calls[2].ids[i]].document) > 200
    /\ \E i \in 1..2 : Len(request.before[calls[2].ids[i]].document) < 200
    /\ result.value.confidence = "medium"

Cleared == pc = "returned" /\ request.method = "clear_all_articles"
Counted == pc = "returned" /\ request.method = "get_statistics"

\* the sum of the counts of a categories dict
RECURSIVE SumOfCounts(_)
SumOfCounts(categories) ==
    IF DOMAIN categories = {} THEN 0
    ELSE LET c == CHOOSE x \in DOMAIN categories : TRUE IN
         categories[c]
             + SumOfCounts([d \in DOMAIN categories \ {c} |-> categories[d]])

\* the part of C14 that is about each method alone: clear_all_articles
\* never raises, whichever of its two store calls fails; get_statistics
\* never raises, returns the all-zero statistics when the store fails, and
\* when the store answers its total_articles is the number of records and
\* the sum of the counts of its categories.
NeitherPropagates ==
    /\ Cleared => ~result.raised
    /\ Counted =>
        /\ ~result.raised
        /\ Len(calls) = 1
        /\ ~calls[1].ok =>
            /\ result.value.total_articles = 0
            /\ DOMAIN result.value.categories = {}
            /\ result.value.avg_article_length.dividend = 0
        /\ calls[1].ok =>
            /\ result.value.total_articles = Cardinality(DOMAIN request.before)
            /\ result.value.total_articles = SumOfCounts(result.value.categories)

\* get_statistics was called straight after clear_all_articles returned
CountedAfterClear == Counted /\ request.follows.method = "clear_all_articles"

\* C14 as stated: neither method propagates an error, and get_statistics
\* after clear_all_articles reports no article and no category, also when
\* delete_collection or create_collection failed.
C14_ClearedStoreCountsZero ==
    /\ NeitherPropagates
    /\ CountedAfterClear =>
        /\ result.value.total_articles = 0
        /\ DOMAIN result.value.categories = {}

\* C14 as amended: neither method propagates an error; get_statistics
\* after clear_all_articles reports no article and no category when
\* delete_collection succeeded, whether or not create_collection did; when
\* delete_collection failed the collection is as it was before the clear
\* and get_statistics reports its records.
C14_DeletedStoreCountsZero ==
    /\ NeitherPropagates
    /\ Cleared =>
        /\ Len(calls) \in 1..2
        /\ Len(calls) = 2 <=> calls[1].ok
        /\ calls[1].ok => collection = <<>>
        /\ ~calls[1].ok => collection = request.before
    /\ CountedAfterClear =>
        /\ request.follows.calls[1].ok =>
            /\ result.value.total_articles = 0
            /\ DOMAIN result.value.categories = {}
        /\ ~request.follows.calls[1].ok =>
            /\ request.before = request.follows.before
            /\ calls[1].ok =>
                   result.value.total_articles
                       = Cardinality(DOMAIN request.follows.before)

\* two articles are cleared, delete_collection succeeds and
\* create_collection fails: get_statistics reports nothing
C14_Witness ==
    /\ CountedAfterClear
    /\ Cardinality(DOMAIN request.follows.before) = 2
    /\ Len(request.follows.calls) = 2
    /\ request.follows.calls[1].ok
    /\ ~request.follows.calls[2].ok
    /\ result.value.total_articles = 0
    /\ ~result.raised

=============================================================================
